---------------------------- MODULE Spec2Model ----------------------------
(***************************************************************************)
(* ChatListener of @letruxux/youtube-chat: the polling loop that fetches a *)
(* snapshot of the live chat, keeps the ids it has already delivered,      *)
(* notifies the registered callbacks of the new messages and re-schedules  *)
(* itself with setTimeout.                                                 *)
(*                                                                         *)
(* One listener instance is modelled.  JavaScript runs the synchronous     *)
(* parts of a handler to completion, so every action below is one such     *)
(* run: a public method call, a timer firing, or the continuation of       *)
(* _poll after `await fetchChatMessages(...)` settles.                     *)
(*                                                                         *)
(* Timer ids are only ever stored in this.timeoutId and passed back to     *)
(* clearTimeout, so the pending timers are kept up to their identity: the  *)
(* one this.timeoutId holds, and the number of the others.                 *)
(*                                                                         *)
(* Three specifications share the actions.  Spec takes what                *)
(* fetchChatMessages resolves to as given (Snapshots); SpecFair adds the   *)
(* fairness of the event loop to it; SpecFetch follows fetchChatMessages   *)
(* from the actions of the response through parseAction and                *)
(* validateMessage to the listener that polls with it.                     *)
(***************************************************************************)
EXTENDS Integers, Sequences, FiniteSets

(* ----------------------------- bounds --------------------------------- *)

\* longest snapshot the fetcher returns in the model
MaxSnapshotLen == 2
\* most poll chains (fetches in flight plus pending timers) start() may create
MaxChains == 2

(* --------------------------- program constants ------------------------ *)

DefaultInterval == 1000
DefaultMaxInterval == 5000
DefaultMaxStoredIds == 100

(* ------------------------------ inputs -------------------------------- *)

\* message ids the platform assigns (non-empty strings)
Ids == {"A", "B", "C"}

\* callbacks the application may register
Observers == {"O1", "O2"}

\* ChatListenerOptions the listener is constructed with; 0 stands for an
\* option left out (undefined), which `||` treats like 0
OptionSets ==
    { [interval |-> 0,    dynamicPolling |-> FALSE, maxInterval |-> 0,    maxStoredIds |-> 0],
      [interval |-> 1000, dynamicPolling |-> TRUE,  maxInterval |-> 5000, maxStoredIds |-> 2],
      [interval |-> 1000, dynamicPolling |-> TRUE,  maxInterval |-> 0,    maxStoredIds |-> 100],
      [interval |-> 2000, dynamicPolling |-> FALSE, maxInterval |-> 3000, maxStoredIds |-> 1] }

\* the sequences over S of length at most n
RECURSIVE SeqsUpTo(_, _)
SeqsUpTo(S, n) ==
    IF n = 0 THEN { <<>> }
    ELSE LET shorter == SeqsUpTo(S, n - 1)
         IN  shorter \cup { Append(s, x) : s \in shorter, x \in S }

\* what fetchChatMessages can resolve to: validated messages, named by id
Snapshots == SeqsUpTo(Ids, MaxSnapshotLen)

(* ------------------------- numbers (milliseconds) --------------------- *)
\* A JavaScript number that is k / 2^e is kept as the reduced fraction
\* [num |-> k, den |-> 2^e]; multiplying by 1.5 is exact on these.

Ms(n) == [num |-> n, den |-> 1]

RECURSIVE Reduce(_)
Reduce(q) ==
    IF q.den > 1 /\ q.num % 2 = 0
    THEN Reduce([num |-> q.num \div 2, den |-> q.den \div 2])
    ELSE q

\* x * 1.5
Times15(x) == Reduce([num |-> 3 * x.num, den |-> 2 * x.den])

Leq(x, y) == x.num * y.den <= y.num * x.den

\* Math.min(x, y)
MathMin(x, y) == IF Leq(x, y) THEN x ELSE y

(* ------------------------------- state -------------------------------- *)

VARIABLES
    interval,         \* this.interval
    maxInterval,      \* this.maxInterval
    maxStoredIds,     \* this.maxStoredIds
    dynamicPolling,   \* this.dynamicPolling
    isListening,      \* this.isListening
    seenMessages,     \* this.seenMessages, a Set: its ids in insertion order
    callbacks,        \* this.callbacks, a Set: its callbacks in insertion order
    currentInterval,  \* this.currentInterval
    timeoutId,        \* this.timeoutId: "undefined", or the id of a timer that
                      \* is "pending" or "done" (fired or cleared)
    orphanTimers,     \* the event loop: the pending timers whose id this.timeoutId
                      \* no longer holds (a later setTimeout overwrote it)
    inFlight,         \* the event loop: _poll calls suspended at `await fetchChatMessages`
    polled,           \* history: what the _poll continuation or the call of
                      \* setDynamicPolling did, in the state it leaves; NoPoll
                      \* after every other step
    history,          \* history: the snapshots of all polls so far, while they
                      \* follow one of the Scenarios
    fetched           \* history: the actions of the response the latest fetch
                      \* parsed and the messages it returned, where the
                      \* specification follows the fetcher (NoFetch elsewhere)

vars == << interval, maxInterval, maxStoredIds, dynamicPolling, isListening,
           seenMessages, callbacks, currentInterval, timeoutId, orphanTimers,
           inFlight, polled, history, fetched >>

config == << interval, maxInterval, maxStoredIds >>

\* the program's own state
listener == << interval, maxInterval, maxStoredIds, dynamicPolling, isListening,
               seenMessages, callbacks, currentInterval, timeoutId, orphanTimers,
               inFlight >>

\* the latest step was no _poll continuation and no setDynamicPolling call
NoPoll == [call |-> "none", fetch |-> "none", newMessages |-> <<>>, events |-> <<>>,
           seenBefore |-> <<>>, intervalBefore |-> [num |-> 0, den |-> 1]]

\* the polls of the eviction scenario (run with maxStoredIds = 2): the ids
\* A, B, C over three polls, then A again
ScenarioEviction == << <<"A">>, <<"B">>, <<"C">>, <<"A">> >>

\* the polls of the end-to-end scenario: msg1, nothing, msg1 and msg2
ScenarioEndToEnd == << <<"A">>, <<>>, <<"A", "B">> >>

\* a call of stop() and a call of start() that started the listener, as
\* entries of a scenario
StopCall == << "stop()" >>
StartCall == << "start()" >>

\* the restart scenario: B is polled, the listener is stopped and started
\* again, and the next poll holds B and A
ScenarioRestart == << << "B" >>, StopCall, StartCall, << "B", "A" >> >>

Scenarios == { ScenarioEviction, ScenarioEndToEnd, ScenarioRestart }

Untracked == [tracked |-> FALSE, polls |-> <<>>]

IsPrefix(s, t) == Len(s) <= Len(t) /\ SubSeq(t, 1, Len(s)) = s

\* the history after a poll that resolved with `messages`
Track(h, messages) ==
    IF h.tracked /\ \E sc \in Scenarios : IsPrefix(Append(h.polls, messages), sc)
    THEN [tracked |-> TRUE, polls |-> Append(h.polls, messages)]
    ELSE Untracked

\* the history after stop() or start(): the call is entered where a scenario
\* has it next, and is of no account elsewhere
TrackCall(h, call) ==
    IF h.tracked /\ \E sc \in Scenarios : IsPrefix(Append(h.polls, call), sc)
    THEN [tracked |-> TRUE, polls |-> Append(h.polls, call)]
    ELSE h

(* --------------------------- helper operators ------------------------- *)

Range(s) == { s[i] : i \in 1..Len(s) }

\* Set.prototype.add on an insertion-ordered set
SetAdd(set, x) == IF x \in Range(set) THEN set ELSE Append(set, x)

\* Set.prototype.delete
SetDelete(set, x) == SelectSeq(set, LAMBDA y : y # x)

\* options.x || d
OrDefault(x, d) == IF x = 0 THEN d ELSE x

\* the number of timers set and not yet fired or cleared
PendingTimers == orphanTimers + (IF timeoutId = "pending" THEN 1 ELSE 0)


(* --------------------------- fetchChatMessages ------------------------ *)

\* a property read from the parsed response: a string, or undefined
Str(s) == [type |-> "string", value |-> s]
Undefined == [type |-> "undefined", value |-> ""]

\* an element of data.contents.liveChatRenderer.actions: one that holds a
\* liveChatTextMessageRenderer (its message runs already trimmed, its
\* authorName.simpleText and its id), or one of another kind that holds none
TextAction(runs, authorName, id) ==
    [renderer |-> TRUE, runs |-> runs, authorName |-> authorName, id |-> id]
OtherAction ==
    [renderer |-> FALSE, runs |-> <<>>, authorName |-> Undefined, id |-> Undefined]

\* the id of the text actions whose text or author is missing
IdOfDiscarded == "D"

\* the actions a response holds in the model: a well-formed message for
\* each id; a message without runs, with an empty or a missing author name,
\* with an empty or a missing id; an action that is no text message
Actions ==
    { TextAction(<< "hi" >>, Str("ann"), Str(id)) : id \in Ids }
    \cup { TextAction(<<>>, Str("ann"), Str(IdOfDiscarded)),
           TextAction(<< "hi" >>, Str(""), Str(IdOfDiscarded)),
           TextAction(<< "hi" >>, Undefined, Str(IdOfDiscarded)),
           TextAction(<< "hi" >>, Str("ann"), Str("")),
           TextAction(<< "hi" >>, Str("ann"), Undefined),
           OtherAction }

\* the responses the platform sends
Responses == SeqsUpTo(Actions, MaxSnapshotLen)

\* runs.map(...).join(" ")
RECURSIVE Join(_)
Join(runs) ==
    IF runs = <<>> THEN ""
    ELSE IF Len(runs) = 1 THEN Head(runs)
    ELSE Head(runs) \o " " \o Join(Tail(runs))

\* parseAction(action), for an action that holds the renderer
ParseAction(action) ==
    [text |-> Str(Join(action.runs)), author |-> action.authorName, id |-> action.id]

Null == [type |-> "null"]

\* try { return parseAction(action) } catch (e) { return null }: reading the
\* renderer's properties of an action without renderer throws a TypeError
ParseOrNull(action) == IF action.renderer THEN ParseAction(action) ELSE Null

\* mutant: validateMessage without the tests of text and author
ValidateMessageIdOnly(message) ==
    IF message = Null THEN FALSE
    ELSE IF message.id.type # "string" \/ message.id.value = "" THEN FALSE
    ELSE TRUE

\* validateMessage(message)
ValidateMessage(message) ==
    IF message = Null THEN FALSE
    ELSE IF message.text.type # "string" \/ message.text.value = "" THEN FALSE
    ELSE IF message.author.type # "string" \/ message.author.value = "" THEN FALSE
    ELSE IF message.id.type # "string" \/ message.id.value = "" THEN FALSE
    ELSE TRUE

\* actions.map(...).filter(validateMessage)
FetchChatMessages(actions) ==
    SelectSeq([i \in 1..Len(actions) |-> ParseOrNull(actions[i])], ValidateMessage)

\* the ids of the messages, which is all the listener reads of them
MessageIds(messages) == [i \in 1..Len(messages) |-> messages[i].id.value]

\* no fetch is followed
NoFetch == [actions |-> <<>>, messages |-> <<>>]

(* ------------------------------ constructor --------------------------- *)

Init ==
    \E options \in OptionSets :
        /\ interval = OrDefault(options.interval, DefaultInterval)
        /\ dynamicPolling = options.dynamicPolling
        /\ maxInterval = OrDefault(options.maxInterval, DefaultMaxInterval)
        /\ maxStoredIds = OrDefault(options.maxStoredIds, DefaultMaxStoredIds)
        /\ isListening = FALSE
        /\ seenMessages = <<>>
        /\ callbacks = <<>>
        /\ currentInterval = Ms(OrDefault(options.interval, DefaultInterval))
        /\ timeoutId = "undefined"
        /\ orphanTimers = 0
        /\ inFlight = 0
        /\ polled = NoPoll
        /\ history = [tracked |-> TRUE, polls |-> <<>>]
        /\ fetched = NoFetch

(* ------------------------------ public API ---------------------------- *)

\* onMessage(callback)
OnMessage(callback) ==
    /\ callbacks' = SetAdd(callbacks, callback)
    /\ UNCHANGED << config, dynamicPolling, isListening, seenMessages,
                    currentInterval, timeoutId, orphanTimers, inFlight, history >>
    /\ polled' = NoPoll
    /\ fetched' = NoFetch

\* mutant: _poll() without its `if (!this.isListening) return`
PollHeadUnguarded(listening, fetches) == fetches + 1

\* the synchronous head of _poll(): the fetches in flight after the call
PollHead(listening, fetches) == IF listening THEN fetches + 1 ELSE fetches

\* start()
Start ==
    /\ polled' = NoPoll
    /\ fetched' = NoFetch
    /\ IF isListening
       THEN UNCHANGED << listener, history >>
       ELSE /\ inFlight + PendingTimers < MaxChains
            /\ isListening' = TRUE
            /\ inFlight' = PollHead(TRUE, inFlight)
            /\ history' = TrackCall(history, StartCall)
            /\ UNCHANGED << config, dynamicPolling, seenMessages, callbacks,
                            currentInterval, timeoutId, orphanTimers >>

\* if (this.timeoutId) clearTimeout(this.timeoutId): clearing a timer that
\* has fired or was cleared does nothing
ClearTimeout(id) == IF id = "pending" THEN "done" ELSE id

\* mutant: stop() that forgets the ids it has seen
StopClearsSeen ==
    /\ isListening' = FALSE
    /\ timeoutId' = ClearTimeout(timeoutId)
    /\ seenMessages' = <<>>
    /\ history' = TrackCall(history, StopCall)
    /\ UNCHANGED << config, dynamicPolling, callbacks,
                    currentInterval, orphanTimers, inFlight >>
    /\ polled' = NoPoll
    /\ fetched' = NoFetch

\* stop()
Stop ==
    /\ isListening' = FALSE
    /\ timeoutId' = ClearTimeout(timeoutId)
    /\ history' = TrackCall(history, StopCall)
    /\ UNCHANGED << config, dynamicPolling, seenMessages, callbacks,
                    currentInterval, orphanTimers, inFlight >>
    /\ polled' = NoPoll
    /\ fetched' = NoFetch

\* mutant: setDynamicPolling that keeps the backed-off interval
SetDynamicPollingKeepsInterval(enabled) ==
    /\ dynamicPolling' = enabled
    /\ UNCHANGED << config, isListening, seenMessages, callbacks, currentInterval,
                    timeoutId, orphanTimers, inFlight, history >>
    /\ polled' = [NoPoll EXCEPT !.call = "setDynamicPolling",
                                !.intervalBefore = currentInterval]
    /\ fetched' = NoFetch

\* mutant: setDynamicPolling that resets the interval only when it turns
\* dynamic polling on
SetDynamicPollingResetsWhenOn(enabled) ==
    /\ dynamicPolling' = enabled
    /\ currentInterval' = IF enabled THEN Ms(interval) ELSE currentInterval
    /\ UNCHANGED << config, isListening, seenMessages, callbacks, timeoutId,
                    orphanTimers, inFlight, history >>
    /\ polled' = [NoPoll EXCEPT !.call = "setDynamicPolling",
                                !.intervalBefore = currentInterval]
    /\ fetched' = NoFetch

\* setDynamicPolling(enabled)
SetDynamicPolling(enabled) ==
    /\ dynamicPolling' = enabled
    /\ currentInterval' = Ms(interval)
    /\ UNCHANGED << config, isListening, seenMessages, callbacks, timeoutId,
                    orphanTimers, inFlight, history >>
    /\ polled' = [NoPoll EXCEPT !.call = "setDynamicPolling",
                                !.intervalBefore = currentInterval]
    /\ fetched' = NoFetch

(* ------------------------------- _poll -------------------------------- *)

\* a timer set by _poll fires: () => this._poll(); `current` tells whether
\* it is the timer this.timeoutId holds
TimerFires(current) ==
    /\ IF current
       THEN timeoutId = "pending" /\ timeoutId' = "done" /\ UNCHANGED orphanTimers
       ELSE orphanTimers > 0 /\ orphanTimers' = orphanTimers - 1 /\ UNCHANGED timeoutId
    /\ inFlight' = PollHead(isListening, inFlight)
    /\ UNCHANGED << config, dynamicPolling, isListening, seenMessages,
                    callbacks, currentInterval, history >>
    /\ polled' = NoPoll
    /\ fetched' = NoFetch

\* mutant: no filter, every fetched message counts as new
NewMessagesUnfiltered(messages, seen) == messages

\* messages.filter((msg) => !this.seenMessages.has(msg.id))
NewMessages(messages, seen) ==
    SelectSeq(messages, LAMBDA id : id \notin Range(seen))

Event(ev, id, cb) == [ev |-> ev, id |-> id, cb |-> cb]

\* the eviction test of the forEach body
ShouldEvict(seen) == Len(seen) > maxStoredIds

\* this.callbacks.forEach((callback) => callback(msg)); a callback in
\* `throws` throws when it is called with that id, which ends the forEach
RECURSIVE NotifyAll(_, _, _)
NotifyAll(cbs, id, throws) ==
    IF cbs = <<>> THEN [events |-> <<>>, threw |-> FALSE]
    ELSE IF <<Head(cbs), id>> \in throws
         THEN [events |-> << Event("call", id, Head(cbs)),
                             Event("throw", id, Head(cbs)) >>,
               threw |-> TRUE]
         ELSE LET rest == NotifyAll(Tail(cbs), id, throws)
              IN  [events |-> << Event("call", id, Head(cbs)) >> \o rest.events,
                   threw |-> rest.threw]

\* mutant: the forEach body notifies the callbacks before it adds the id
RECURSIVE ForEachNewNotifiesFirst(_, _, _, _)
ForEachNewNotifiesFirst(newMessages, seen, cbs, throws) ==
    IF newMessages = <<>>
    THEN [seen |-> seen, events |-> <<>>, threw |-> FALSE]
    ELSE LET id == Head(newMessages)
             evict == ShouldEvict(seen)
             kept == IF evict THEN SetDelete(seen, Head(seen)) ELSE seen
             added == SetAdd(kept, id)
             evs == (IF evict THEN << Event("delete", Head(seen), "") >> ELSE <<>>)
             notified == NotifyAll(cbs, id, throws)
         IN  IF notified.threw
             THEN [seen |-> kept, events |-> evs \o notified.events, threw |-> TRUE]
             ELSE LET rest == ForEachNewNotifiesFirst(Tail(newMessages), added, cbs, throws)
                  IN  [seen |-> rest.seen,
                       events |-> evs \o notified.events
                                  \o << Event("add", id, "") >> \o rest.events,
                       threw |-> rest.threw]

\* newMessages.forEach((msg) => { evict; add; notify }); when the eviction
\* test passes the set is not empty and its first id, a non-empty string,
\* is truthy, so `if (next.value)` always deletes it
RECURSIVE ForEachNew(_, _, _, _)
ForEachNew(newMessages, seen, cbs, throws) ==
    IF newMessages = <<>>
    THEN [seen |-> seen, events |-> <<>>, threw |-> FALSE]
    ELSE LET id == Head(newMessages)
             evict == ShouldEvict(seen)
             kept == IF evict THEN SetDelete(seen, Head(seen)) ELSE seen
             added == SetAdd(kept, id)
             evs == (IF evict THEN << Event("delete", Head(seen), "") >> ELSE <<>>)
                    \o << Event("add", id, "") >>
             notified == NotifyAll(cbs, id, throws)
         IN  IF notified.threw
             THEN [seen |-> added, events |-> evs \o notified.events, threw |-> TRUE]
             ELSE LET rest == ForEachNew(Tail(newMessages), added, cbs, throws)
                  IN  [seen |-> rest.seen,
                       events |-> evs \o notified.events \o rest.events,
                       threw |-> rest.threw]

\* mutant: the backoff doubles the interval
NextIntervalDoubling(found, current) ==
    IF dynamicPolling
    THEN IF found > 0 THEN Ms(interval)
         ELSE MathMin([num |-> 2 * current.num, den |-> current.den], Ms(maxInterval))
    ELSE Ms(interval)

\* mutant: the backoff without the cap of maxInterval
NextIntervalUncapped(found, current) ==
    IF dynamicPolling
    THEN IF found > 0 THEN Ms(interval) ELSE Times15(current)
    ELSE Ms(interval)

\* the interval recomputation that follows the forEach
NextInterval(found, current) ==
    IF dynamicPolling
    THEN IF found > 0 THEN Ms(interval)
         ELSE MathMin(Times15(current), Ms(maxInterval))
    ELSE Ms(interval)

\* this.timeoutId = setTimeout(() => this._poll(), this.currentInterval):
\* a timer the field held and that is still pending stays pending
SetTimeout ==
    /\ timeoutId' = "pending"
    /\ orphanTimers' = orphanTimers + (IF timeoutId = "pending" THEN 1 ELSE 0)

\* the callbacks that throw during one run of the forEach: none, or one
\* registered callback on one of the new messages
Faults(messages) ==
    { {} } \cup { { <<cb, id>> } : cb \in Range(callbacks),
                                   id \in Range(NewMessages(messages, seenMessages)) }

\* `await fetchChatMessages(...)` resolves with `messages`
FetchResolves(messages, throws) ==
    /\ inFlight > 0
    /\ inFlight' = inFlight - 1
    /\ LET newMessages == NewMessages(messages, seenMessages)
           done == ForEachNew(newMessages, seenMessages, callbacks, throws)
       IN  /\ seenMessages' = done.seen
           /\ currentInterval' = IF done.threw THEN currentInterval
                                  ELSE NextInterval(Len(newMessages), currentInterval)
           /\ polled' = [call |-> "none", fetch |-> "ok", newMessages |-> newMessages,
                         events |-> done.events, seenBefore |-> seenMessages,
                         intervalBefore |-> currentInterval]
    /\ history' = Track(history, messages)
    /\ SetTimeout
    /\ UNCHANGED << config, dynamicPolling, isListening, callbacks >>

\* mutant: a rejected fetch recomputes the interval like a poll that found nothing
FetchRejectsAsEmptyPoll ==
    /\ inFlight > 0
    /\ inFlight' = inFlight - 1
    /\ currentInterval' = NextInterval(0, currentInterval)
    /\ polled' = [call |-> "none", fetch |-> "error", newMessages |-> <<>>, events |-> <<>>,
                  seenBefore |-> seenMessages, intervalBefore |-> currentInterval]
    /\ history' = Untracked
    /\ fetched' = NoFetch
    /\ SetTimeout
    /\ UNCHANGED << config, dynamicPolling, isListening, seenMessages, callbacks >>

\* mutant: a rejected fetch ends the loop (setTimeout inside the try block)
FetchRejectsEndsLoop ==
    /\ inFlight > 0
    /\ inFlight' = inFlight - 1
    /\ polled' = [call |-> "none", fetch |-> "error", newMessages |-> <<>>,
                  events |-> <<>>, seenBefore |-> seenMessages,
                  intervalBefore |-> currentInterval]
    /\ history' = Untracked
    /\ fetched' = NoFetch
    /\ UNCHANGED << config, dynamicPolling, isListening, seenMessages,
                    callbacks, currentInterval, timeoutId, orphanTimers >>

\* `await fetchChatMessages(...)` rejects (HTTP or parse failure): the catch
\* block logs, and the try block's interval recomputation is skipped
FetchRejects ==
    /\ inFlight > 0
    /\ inFlight' = inFlight - 1
    /\ polled' = [call |-> "none", fetch |-> "error", newMessages |-> <<>>, events |-> <<>>,
                  seenBefore |-> seenMessages, intervalBefore |-> currentInterval]
    /\ history' = Untracked
    /\ fetched' = NoFetch
    /\ SetTimeout
    /\ UNCHANGED << config, dynamicPolling, isListening, seenMessages,
                    callbacks, currentInterval >>

\* `await fetchChatMessages(...)` resolves with the messages it parsed from
\* the response that holds `actions`
FetchParses(actions) ==
    /\ inFlight > 0
    /\ LET messages == FetchChatMessages(actions)
       IN  /\ fetched' = [actions |-> actions, messages |-> messages]
           /\ \E throws \in Faults(MessageIds(messages)) :
                  FetchResolves(MessageIds(messages), throws)

(* ---------------------------- specification --------------------------- *)

Next ==
    \/ \E callback \in Observers : OnMessage(callback)
    \/ Start
    \/ Stop
    \/ \E enabled \in BOOLEAN : SetDynamicPolling(enabled)
    \/ \E current \in BOOLEAN : TimerFires(current)
    \/ \E messages \in Snapshots :
          \E throws \in Faults(messages) :
              FetchResolves(messages, throws) /\ fetched' = NoFetch
    \/ FetchRejects

Spec == Init /\ [][Next]_vars

\* the continuation of _poll runs: the awaited fetch resolved or rejected
FetchSettles ==
    \/ \E messages \in Snapshots :
          \E throws \in Faults(messages) :
              FetchResolves(messages, throws) /\ fetched' = NoFetch
    \/ FetchRejects

\* the event loop runs the callback of every timer that is due, and every
\* fetch settles (the HTTP request ends in a response or in an error)
Fairness ==
    /\ WF_vars(TimerFires(TRUE))
    /\ WF_vars(TimerFires(FALSE))
    /\ WF_vars(FetchSettles)

SpecFair == Spec /\ Fairness

\* the listeners constructed without dynamic polling
InitFetch == Init /\ ~dynamicPolling

\* the listener of one start() with the fetcher followed from the response
\* to the messages it returns
NextFetch ==
    \/ \E callback \in Observers : OnMessage(callback)
    \/ Start
    \/ TimerFires(TRUE)
    \/ \E actions \in Responses : FetchParses(actions)

SpecFetch == InitFetch /\ [][NextFetch]_vars


(* ------------------------------- claims ------------------------------- *)

\* the events of the latest poll
Evs == polled.events
Pos == 1..Len(polled.events)

IsCall(q, cb, id) == Evs[q] = Event("call", id, cb)
IsDelete(q, id) == Evs[q] = Event("delete", id, "")

\* the latest step was a poll whose fetch resolved / rejected
Resolved == polled.fetch = "ok"
Rejected == polled.fetch = "error"

\* the poll added an id, that is, it found a new message
FoundNew == \E q \in Pos : Evs[q].ev = "add"

\* equality and order of two numbers, by cross-multiplication
SameMs(x, y) == x.num * y.den = y.num * x.den
LessMs(x, y) == x.num * y.den < y.num * x.den

\* x is min(before * 1.5, maxInterval)
IsBackoffOf(x, before) ==
    IF 3 * before.num <= 2 * maxInterval * before.den
    THEN 2 * x.num * before.den = 3 * before.num * x.den
    ELSE x.num = maxInterval * x.den

\* C1: a callback is invoked at most once with an id for as long as that id
\* stays in seenMessages: a poll invokes no callback with an id that was in
\* the set when the poll began, nor twice with the same id, unless the id
\* was deleted from the set in between.
C1_AtMostOncePerId ==
    \A q \in Pos :
        Evs[q].ev = "call" =>
            /\ Evs[q].id \in Range(polled.seenBefore) =>
                   \E d \in 1..(q - 1) : IsDelete(d, Evs[q].id)
            /\ \A p \in 1..(q - 1) :
                   Evs[p] = Evs[q] => \E d \in (p + 1)..(q - 1) : IsDelete(d, Evs[q].id)

\* C2: seenMessages never holds more than maxStoredIds ids.
C2_SeenWithinMax == Len(seenMessages) <= maxStoredIds

\* C3: with maxStoredIds = 2, after the polls [A], [B], [C], [A] of a new
\* listener, the fourth poll invokes the registered callbacks with A again
\* (A was evicted when C was inserted).
C3_EvictedIdRedelivered ==
    ( /\ maxStoredIds = 2
      /\ Resolved
      /\ history.tracked
      /\ history.polls = ScenarioEviction )
    => /\ "A" \notin Range(polled.seenBefore)
       /\ \A cb \in Range(callbacks) : \E q \in Pos : IsCall(q, cb, "A")

\* C4: while the listener is stopped and start() is not called, no step
\* invokes the fetcher, whether a timer fires or a fetch in flight settles.
C4_NoFetchWhileStopped ==
    [][(~isListening /\ ~isListening') => inFlight' <= inFlight]_vars

\* C4 witness: stop() came while a fetch was in flight; the fetch has
\* settled and its continuation has set a timer that is still pending.
C4_StoppedWithTimerPending ==
    ~isListening /\ polled.fetch # "none" /\ PendingTimers > 0 /\ inFlight = 0

\* C5: at most one poll chain exists: one fetch in flight or one pending
\* timer, never two fetches, two timers or a fetch and a timer.
C5_SinglePollChain == inFlight + PendingTimers <= 1

\* C6: when O1 and O2 are registered in that order and O1 throws on a new
\* message, O2 is still invoked with it, every new message of the snapshot is
\* still delivered to both, and the next poll is scheduled.
C6_ObserverIsolation ==
    ( /\ Resolved
      /\ callbacks = << "O1", "O2" >>
      /\ \E q \in Pos : Evs[q].ev = "throw" /\ Evs[q].cb = "O1" )
    => /\ \A id \in Range(polled.newMessages) :
              \A cb \in Range(callbacks) : \E q \in Pos : IsCall(q, cb, id)
       /\ timeoutId = "pending"

C8_BackoffGrowthAndCap ==
    (Resolved /\ dynamicPolling /\ ~FoundNew) =>
        /\ IsBackoffOf(currentInterval, polled.intervalBefore)
        /\ (interval = 1000 /\ maxInterval = 5000) =>
               /\ polled.intervalBefore \in { Ms(1000), Ms(1500), Ms(2250), Ms(3375), Ms(5000) }
               /\ polled.intervalBefore = Ms(1000) => currentInterval = Ms(1500)
               /\ polled.intervalBefore = Ms(1500) => currentInterval = Ms(2250)
               /\ polled.intervalBefore = Ms(2250) => currentInterval = Ms(3375)
               /\ polled.intervalBefore = Ms(3375) => currentInterval = Ms(5000)
               /\ polled.intervalBefore = Ms(5000) => currentInterval = Ms(5000)

\* C8 witness: the fourth empty poll in a row reaches the cap.
C8_CapReached ==
    /\ Resolved /\ dynamicPolling /\ ~FoundNew
    /\ polled.intervalBefore = Ms(3375)
    /\ currentInterval = Ms(5000)

\* C9: with dynamicPolling on, after a poll that found a new message the
\* current interval is the base interval.
C9_ResetOnNewMessage ==
    (Resolved /\ dynamicPolling /\ FoundNew) => currentInterval = Ms(interval)

\* C10: whenever dynamicPolling is off, the current interval is the base
\* interval.
C10_StaticPacing == ~dynamicPolling => currentInterval = Ms(interval)

\* C10 witness: dynamicPolling is off after a poll that came while the
\* interval was the base interval and found nothing.
C10_StaticEmptyPoll ==
    ~dynamicPolling /\ Resolved /\ ~FoundNew /\ seenMessages # <<>>

\* C11: start() on a listening listener and stop() on a listener that is not
\* listening change nothing of the listener (flag, seenMessages, interval,
\* timers, fetches in flight); isListening turns true only in a step of
\* start() and false only in a step of stop().
C11_StartStopIdempotent ==
    [][ /\ (isListening /\ Start) => UNCHANGED listener
        /\ (~isListening /\ Stop) => UNCHANGED listener
        /\ (~isListening /\ isListening') => Start
        /\ (isListening /\ ~isListening') => Stop ]_vars

\* the latest step was the continuation of _poll (a tick ended)
Ticked == polled.fetch # "none"

\* the latest tick ended by a callback throwing
Threw == \E q \in Pos : Evs[q].ev = "throw"

\* C12: every tick, also one whose fetch failed or in which a callback
\* threw, leaves a timer for the next tick pending; and when a tick has
\* ended with the listener listening, either stop() is called or (the timer
\* firing, the fetch settling) the fetcher is invoked again.
C12_LoopSurvives ==
    /\ [](Ticked => timeoutId = "pending")
    /\ (isListening /\ Ticked /\ inFlight = 0) ~> (inFlight > 0 \/ ~isListening)

\* C12 witness: a tick of a listening listener ended by a callback throwing.
C12_TickEndedByThrow == isListening /\ Resolved /\ Threw /\ inFlight = 0

\* C13: a call of setDynamicPolling(enabled) leaves the base interval as the
\* current interval, whatever `enabled` and the interval before were, and
\* `enabled` as dynamicPolling; isListening, seenMessages, callbacks and
\* the timers are as they were.
C13_SetDynamicPollingFrame ==
    [][ /\ polled'.call = "setDynamicPolling" =>
               /\ currentInterval' = Ms(interval)
               /\ UNCHANGED << isListening, seenMessages, callbacks,
                               timeoutId, orphanTimers >>
        /\ \A enabled \in BOOLEAN :
               SetDynamicPolling(enabled) => dynamicPolling' = enabled ]_vars

\* C13 witness: setDynamicPolling was called on a listening listener with
\* ids in seenMessages, a timer pending and the interval backed off.
C13_ToggledWhileBackedOff ==
    /\ polled.call = "setDynamicPolling"
    /\ LessMs(Ms(interval), polled.intervalBefore)
    /\ currentInterval = Ms(interval)
    /\ isListening /\ timeoutId = "pending"
    /\ seenMessages # <<>> /\ callbacks # <<>>

\* the ids the callbacks were invoked with in the latest tick, in order
CalledIds ==
    LET calls == SelectSeq(Evs, LAMBDA e : e.ev = "call")
    IN  [i \in 1..Len(calls) |-> calls[i].id]

\* C14: with maxStoredIds 100, interval 1000, dynamicPolling on and one
\* callback, which returns normally, the polls [A], [], [A, B] of a new
\* listener invoke the callback with A in the first, with nothing in the
\* second and with B alone in the third; the current interval is 1500 after
\* the second and 1000 after the third.
C14_EndToEnd ==
    ( /\ maxStoredIds = 100 /\ interval = 1000 /\ dynamicPolling
      /\ Len(callbacks) = 1
      /\ Resolved /\ ~Threw
      /\ history.tracked )
    => /\ history.polls = SubSeq(ScenarioEndToEnd, 1, 1) => CalledIds = << "A" >>
       /\ history.polls = SubSeq(ScenarioEndToEnd, 1, 2) =>
              CalledIds = <<>> /\ currentInterval = Ms(1500)
       /\ history.polls = ScenarioEndToEnd =>
              CalledIds = << "B" >> /\ currentInterval = Ms(1000)

\* C14 witness: the third poll of the scenario has run and delivered B.
C14_ThirdTickDone ==
    /\ maxStoredIds = 100 /\ interval = 1000 /\ dynamicPolling
    /\ Len(callbacks) = 1
    /\ Resolved /\ ~Threw
    /\ history.tracked /\ history.polls = ScenarioEndToEnd
    /\ polled.intervalBefore = Ms(1500)
    /\ CalledIds = << "B" >>

\* an action is well-formed: it parses, and its text, author and id are
\* non-empty strings
WellFormed(action) ==
    /\ action.renderer
    /\ Join(action.runs) # ""
    /\ action.authorName.type = "string" /\ action.authorName.value # ""
    /\ action.id.type = "string" /\ action.id.value # ""

\* the ids of the actions of the latest response that are not well-formed
IllFormedIds ==
    { fetched.actions[i].id.value : i \in { j \in 1..Len(fetched.actions) :
                                              ~WellFormed(fetched.actions[j]) } }

\* C15: the messages fetchChatMessages returns are the well-formed actions
\* of the response, in the order of the response; an action that does not
\* parse or whose text, author or id is empty or no string is not among
\* them, no callback is invoked with its id and its id is not in
\* seenMessages.
C15_OnlyWellFormedDelivered ==
    Resolved =>
        /\ MessageIds(fetched.messages) =
               MessageIds(SelectSeq(fetched.actions, WellFormed))
        /\ \A i \in 1..Len(fetched.messages) :
               /\ fetched.messages[i].text.value # ""
               /\ fetched.messages[i].author.value # ""
        /\ MessageIds(fetched.messages) \in Snapshots
        /\ \A id \in IllFormedIds :
               /\ id \notin Range(seenMessages)
               /\ \A q \in Pos : Evs[q].id # id

\* C15 witness: a response with an ill-formed action before a well-formed
\* one has been fetched, and the well-formed one alone was delivered.
C15_IllFormedBeforeWellFormed ==
    /\ Resolved
    /\ Len(fetched.actions) = 2
    /\ ~WellFormed(fetched.actions[1])
    /\ WellFormed(fetched.actions[2])
    /\ callbacks # <<>>
    /\ CalledIds = << fetched.actions[2].id.value >>

\* the calls of the latest tick, in order: callback and id
Calls ==
    LET calls == SelectSeq(Evs, LAMBDA e : e.ev = "call")
    IN  [i \in 1..Len(calls) |-> << calls[i].cb, calls[i].id >>]

\* every callback of `cbs`, in that order, with each id of `ids` in turn
RECURSIVE EachWithAll(_, _)
EachWithAll(ids, cbs) ==
    IF ids = <<>> THEN <<>>
    ELSE [i \in 1..Len(cbs) |-> << cbs[i], Head(ids) >>] \o EachWithAll(Tail(ids), cbs)

\* C16: onMessage with a callback that is registered already changes nothing,
\* and a tick invokes every registered callback exactly once with each new
\* message, the callbacks in the order of their first registration.
C16_RegisteredOnceCalledOnce ==
    /\ [][ \A cb \in Range(callbacks) : OnMessage(cb) => UNCHANGED listener ]_vars
    /\ [](Resolved => Calls = EachWithAll(polled.newMessages, callbacks))

\* seenMessages after the first n events of the latest tick
RECURSIVE SeenAfter(_)
SeenAfter(n) ==
    IF n = 0 THEN polled.seenBefore
    ELSE LET seen == SeenAfter(n - 1)
         IN  IF Evs[n].ev = "delete" THEN SetDelete(seen, Evs[n].id)
             ELSE IF Evs[n].ev = "add" THEN SetAdd(seen, Evs[n].id)
             ELSE seen

\* the insertion at event q was preceded by an eviction
Evicted(q) == q > 1 /\ Evs[q - 1].ev = "delete"

\* seenMessages when the processing of the message inserted at event q began
SeenBeforeInsert(q) == SeenAfter(IF Evicted(q) THEN q - 2 ELSE q - 1)

\* C17: an id is evicted only in front of an insertion, one id at most per
\* insertion; the evicted id is the earliest inserted of seenMessages; and
\* an insertion evicts exactly when seenMessages holds maxStoredIds ids or
\* more just before it.
C17_FifoEviction ==
    \A q \in Pos :
        /\ Evs[q].ev = "delete" =>
               /\ q < Len(Evs) /\ Evs[q + 1].ev = "add"
               /\ q > 1 => Evs[q - 1].ev # "delete"
               /\ Evs[q].id = Head(SeenAfter(q - 1))
        /\ Evs[q].ev = "add" =>
               (Evicted(q) <=> Len(SeenBeforeInsert(q)) >= maxStoredIds)

\* C18: a tick that ends while the listener is not listening sets no timer;
\* so whenever the listener is not listening and no fetch is in flight, no
\* timer is pending.
C18_NoTimerOnceStopped ==
    /\ (Ticked /\ ~isListening) => timeoutId # "pending"
    /\ (~isListening /\ inFlight = 0) => PendingTimers = 0

\* the insertions and calls of the latest tick, in order
AddsAndCalls == SelectSeq(Evs, LAMBDA e : e.ev \in { "add", "call" })

\* for each id of `ids` in turn: its insertion, then the call of every
\* callback of `cbs` with it
RECURSIVE InsertThenCallAll(_, _)
InsertThenCallAll(ids, cbs) ==
    IF ids = <<>> THEN <<>>
    ELSE << Event("add", Head(ids), "") >>
         \o [i \in 1..Len(cbs) |-> Event("call", Head(ids), cbs[i])]
         \o InsertThenCallAll(Tail(ids), cbs)

\* the messages fetchChatMessages returned whose id was not in seenMessages
\* when the tick began, in the order it returned them
FetchedNew ==
    SelectSeq(MessageIds(fetched.messages),
              LAMBDA id : id \notin Range(polled.seenBefore))

\* C19: a tick goes through the new messages in the order fetchChatMessages
\* returned them; for each it inserts the id, then calls every callback with
\* it, and only then turns to the next message. (A callback that throws
\* ends the tick there: what was done until then is in this order.)
C19_DeliveryOrder ==
    Resolved =>
        /\ IsPrefix(AddsAndCalls, InsertThenCallAll(FetchedNew, callbacks))
        /\ ~Threw => AddsAndCalls = InsertThenCallAll(FetchedNew, callbacks)

\* C19 witness: a tick delivered two new messages to two callbacks.
C19_TwoMessagesTwoCallbacks ==
    /\ Resolved /\ ~Threw
    /\ Len(FetchedNew) = 2 /\ FetchedNew[1] # FetchedNew[2]
    /\ Len(callbacks) = 2
    /\ Len(AddsAndCalls) = 6

\* the event at which the message of the call at event q was inserted
InsertionOf(q) ==
    CHOOSE p \in 1..q : /\ Evs[p].ev = "add"
                        /\ \A r \in (p + 1)..q : Evs[r].ev # "add"

\* C20: no callback is invoked with a message whose id is in seenMessages
\* when the tick turns to that message; so an id that comes twice in one
\* snapshot is delivered once.
C20_NotCalledForSeenId ==
    \A q \in Pos :
        Evs[q].ev = "call" =>
            Evs[q].id \notin Range(SeenBeforeInsert(InsertionOf(q)))

\* C21: seenMessages is empty in a new listener and changes only in a tick
\* whose fetch resolved; onMessage, start, stop and setDynamicPolling leave
\* it as it is. So it outlives a restart: no tick invokes a callback with an
\* id that was in seenMessages when the tick began, and after the poll [B],
\* stop(), start(), the poll [B, A] delivers A alone.
C21_SeenChangesOnlyInTicks ==
    /\ seenMessages = <<>>
    /\ [][ /\ seenMessages' # seenMessages => polled'.fetch = "ok"
           /\ ( \/ \E cb \in Observers : OnMessage(cb)
                \/ Start
                \/ Stop
                \/ \E enabled \in BOOLEAN : SetDynamicPolling(enabled) )
              => UNCHANGED seenMessages ]_vars
    /\ [](Resolved =>
            /\ \A q \in Pos :
                   Evs[q].ev = "call" => Evs[q].id \notin Range(polled.seenBefore)
            /\ (history.tracked /\ history.polls = ScenarioRestart) =>
                   /\ "B" \in Range(polled.seenBefore)
                   /\ \A q \in Pos : Evs[q].ev = "call" => Evs[q].id = "A")

\* C21 witness: B was delivered, the listener was stopped and started
\* again, and the poll [B, A] after the restart has called a callback.
C21_PolledAfterRestart ==
    /\ Resolved
    /\ history.tracked /\ history.polls = ScenarioRestart
    /\ callbacks # <<>>
    /\ CalledIds # <<>>

\* C22: when the base interval is at most maxInterval, the current interval
\* is at least the base interval and at most maxInterval in every state.
C22_IntervalWithinBounds ==
    interval <= maxInterval =>
        /\ ~LessMs(currentInterval, Ms(interval))
        /\ ~LessMs(Ms(maxInterval), currentInterval)

\* C22 witness: dynamic polling was turned on in a listener constructed
\* without it, and an empty poll at the cap has left the interval at the cap.
C22_HeldAtCap ==
    /\ interval = 2000 /\ maxInterval = 3000
    /\ Resolved /\ ~FoundNew
    /\ polled.intervalBefore = Ms(maxInterval)
    /\ currentInterval = Ms(maxInterval)

=============================================================================
